---- MODULE Spec2Model ----
(***************************************************************************)
(* A model of madadon_bot.py: the StateManager (the persisted state        *)
(* document), detect_significant_changes, send_to_all_users, the           *)
(* automated_monitoring loop and the commands that touch the state.        *)
(*                                                                         *)
(* Representation.                                                         *)
(*  - Wall-clock time is a number of seconds; day d starts at              *)
(*    d * SecondsPerDay.  strftime("%Y-%m-%d") is DateOf, and the empty    *)
(*    string of last_notification is NoDate.                               *)
(*  - A price is an integer number of tenths of a currency unit (1000 is   *)
(*    100.0, 1015 is 101.5), so the threshold test is exact.               *)
(*  - A Python dict is a function whose DOMAIN is its key set; the state   *)
(*    document is a record with the field "keys" holding the top-level     *)
(*    keys that are present.                                               *)
(*  - Optional[float] None is the number None.                             *)
(***************************************************************************)
EXTENDS Integers, Sequences, FiniteSets, TLC

VARIABLES
    clock,          \* datetime.now(): wall-clock seconds
    state,          \* state_manager.state, the in-memory document
    disk,           \* the content of STATE_FILE
    pc,             \* where automated_monitoring is
    current_time,   \* automated_monitoring's local current_time
    batch,          \* the locals of the running send_to_all_users call
    run,            \* the locals and result of the last detect_significant_changes
    reports,        \* per day, the daily-report batches the loop has sent
    cmds,           \* number of commands handled so far
    last_call,      \* the last admin command or direct StateManager call, and what it produced
    full_hist,      \* fetch_low_analysis's local full_hist: the bars the provider returned
    result,         \* what the last fetch_low_analysis call returned
    requests,       \* the history requests of the last fetch_low_analysis call, with their answers
    next_run,       \* schedule_daily_reports's local next_run
    daily_sent      \* the times at which schedule_daily_reports called send_daily_report

vars == <<clock, state, disk, pc, current_time, batch, run, reports, cmds,
          last_call, full_hist, result, requests, next_run, daily_sent>>

----------------------------------------------------------------------------
(* Bounds of the model *)

MaxDay == 1
MaxCommands == 1
\* seconds by which a wall-clock reading may lag the monotonic clock that
\* asyncio.sleep uses (the scheduler drift of spec section 4.3)
Drift == 1
\* longest time one bot.send_message call takes before it returns or raises
SendTimeout == 60

----------------------------------------------------------------------------
(* Program constants *)

SYMBOLS == <<"SPY", "QQQ">>
CHAT_IDS == <<"a1">>
CHANGE_THRESHOLD_PCT == 2
REPORT_HOUR == 9
REPORT_MINUTE == 0
MARKET_OPEN_HOUR == 9
MARKET_CLOSE_HOUR == 16
CHECK_INTERVAL_MINUTES == 30
TICK_SLEEP == 60
BACKOFF_SLEEP == 300

----------------------------------------------------------------------------
(* Time *)

SecondsPerDay == 24 * 60 * 60
HMS(h, m, s) == (h * 60 + m) * 60 + s
Hour(t) == (t % SecondsPerDay) \div 3600
Minute(t) == (t % 3600) \div 60
DateOf(t) == t \div SecondsPerDay
NoDate == 0 - 1
None == 0 - 1

Days == 1..MaxDay
\* the times of day the model samples
TimesOfDay == { HMS(9, 0, 0), HMS(9, 0, 59), HMS(9, 1, 0), HMS(16, 30, 0), HMS(17, 0, 0) }
\* every instant after the last sampled one is folded into EndOfTime
EndOfTime == (MaxDay + 1) * SecondsPerDay
Instants == { d * SecondsPerDay + s : d \in Days, s \in TimesOfDay } \cup {EndOfTime}

\* the wall-clock readings possible once at least `seconds` have passed
After(t, seconds) ==
    LET later == { u \in Instants : u >= t + seconds - Drift }
    IN  IF later = {} THEN {EndOfTime} ELSE later

\* the wall-clock readings possible while one send is awaited
During(t) == { u \in Instants : u >= t /\ u <= t + SendTimeout }

----------------------------------------------------------------------------
(* Python dicts *)

EmptyDict == [x \in {} |-> None]
Put(d, k, v) == [x \in (DOMAIN d) \cup {k} |-> IF x = k THEN v ELSE d[x]]
Range(f) == { f[x] : x \in DOMAIN f }
Max(S) == CHOOSE x \in S : \A y \in S : y <= x

Symbols == Range(SYMBOLS)
\* the closing prices the provider returns for each symbol
PricesOf(symbol) == IF symbol = "SPY" THEN {1000, 1015, 1020} ELSE {980, 1000}
ChatIds == Range(CHAT_IDS) \cup {"u1"}
\* the chats that send subscribe and unsubscribe
Subscribers == {"u1"}

\* no call was made yet
NoCall ==
    [op |-> "none", arg |-> "", raised |-> FALSE, text |-> "", recipients |-> {}, shown |-> {}]

\* a direct call of a StateManager method: its name, its first argument,
\* whether it raised and, for get_active_users, the list it returned
MethodCall(op, arg, raised, returned) ==
    [op |-> op, arg |-> arg, raised |-> raised, text |-> "", recipients |-> returned, shown |-> {}]

\* no analysis was made yet
NoResult == [kind |-> "none"]

----------------------------------------------------------------------------
(* StateManager *)

DefaultState ==
    [ keys |-> {"last_prices", "last_notification", "alerts"},
      last_prices |-> EmptyDict,
      price_history |-> EmptyDict,
      last_notification |-> NoDate,
      users |-> EmptyDict ]

MissingFile == [kind |-> "missing", doc |-> DefaultState]
CorruptFile == [kind |-> "corrupt", doc |-> DefaultState]
JsonFile(st) == [kind |-> "json", doc |-> st]

load_state(file) == IF file.kind = "json" THEN file.doc ELSE DefaultState

\* the outcomes of open(..., 'w') followed by json.dump: the document is
\* written, or the file is left truncated by the write that failed
WriteOutcomes == {"ok", "truncated"}

save_state(st, file, outcome) ==
    IF outcome = "ok" THEN JsonFile(st) ELSE CorruptFile

get_last_price(st, symbol) ==
    IF symbol \in DOMAIN st.last_prices THEN st.last_prices[symbol] ELSE None

get_price_history(st, symbol) ==
    IF "price_history" \in st.keys /\ symbol \in DOMAIN st.price_history
    THEN st.price_history[symbol] ELSE EmptyDict

\* lines 94-101: the history entry of today
WithHistory(st, symbol, price, today) ==
    [st EXCEPT !.keys = @ \cup {"price_history"},
               !.price_history =
                   Put(@, symbol, Put(get_price_history(st, symbol), today, price))]

\* a variant of line 102 that keeps the first price recorded for a symbol
KeepsFirstPrice(st, symbol, price) ==
    IF symbol \in DOMAIN st.last_prices THEN st
    ELSE [st EXCEPT !.last_prices = Put(@, symbol, price)]

\* a variant of line 102 that stores nothing
DropsLastPrice(st, symbol, price) == st

\* line 102
WithLastPrice(st, symbol, price) ==
    [st EXCEPT !.last_prices = Put(@, symbol, price)]

\* update_price: raised is the KeyError of line 102 when the document has no
\* "last_prices" key; the write of line 103 is then not reached
update_price(st, file, symbol, price, now, outcome) ==
    LET hist == WithHistory(st, symbol, price, DateOf(now))
    IN  IF "last_prices" \in st.keys
        THEN LET new == WithLastPrice(hist, symbol, price)
             IN  [state |-> new, disk |-> save_state(new, file, outcome), raised |-> FALSE]
        ELSE [state |-> hist, disk |-> file, raised |-> TRUE]

\* a variant of lines 111-114 without the comparison to today
AlwaysSend(st, now) == TRUE

should_send_notification(st, now) == st.last_notification # DateOf(now)

\* a variant of line 117 that leaves last_notification as it was
NotMarked(st, now) == st

\* a variant of line 117 that marks a fresh document instead of the state held
MarksFreshDocument(st, now) ==
    [DefaultState EXCEPT !.last_notification = DateOf(now)]

\* line 117
MarkedState(st, now) ==
    [st EXCEPT !.keys = @ \cup {"last_notification"}, !.last_notification = DateOf(now)]

mark_notification_sent(st, file, now, outcome) ==
    LET new == MarkedState(st, now)
    IN  [state |-> new, disk |-> save_state(new, file, outcome)]

Username(chat_id) == chat_id

add_user(st, file, chat_id, now, outcome) ==
    LET new == [st EXCEPT !.keys = @ \cup {"users"},
                          !.users = Put(@, chat_id,
                              [username |-> Username(chat_id), added_date |-> now, active |-> TRUE])]
    IN  [state |-> new, disk |-> save_state(new, file, outcome)]

remove_user(st, file, chat_id, outcome) ==
    IF "users" \in st.keys /\ chat_id \in DOMAIN st.users
    THEN LET new == [st EXCEPT !.users[chat_id].active = FALSE]
         IN  [state |-> new, disk |-> save_state(new, file, outcome)]
    ELSE [state |-> st, disk |-> file]

\* a variant of lines 133-136 without the CHAT_IDS of line 136
OnlySubscribers(st) ==
    { c \in DOMAIN st.users : st.users[c].active }

get_active_users(st) ==
    Range(CHAT_IDS) \cup { c \in DOMAIN st.users : st.users[c].active }

----------------------------------------------------------------------------
(* detect_significant_changes *)

\* ticker.history(period="2d"): it raises, or returns len rows whose last
\* Close is close
FetchResults(symbol) ==
    { [raised |-> TRUE, len |-> 0, close |-> None],
      [raised |-> FALSE, len |-> 0, close |-> None] }
    \cup { [raised |-> FALSE, len |-> 2, close |-> p] : p \in PricesOf(symbol) }

\* one provider answer per tracked symbol
Fetches == { f \in [Symbols -> UNION { FetchResults(s) : s \in Symbols }] :
               \A s \in Symbols : f[s] \in FetchResults(s) }

Abs(x) == IF x < 0 THEN 0 - x ELSE x

\* a variant of line 283 with > in place of >=
StrictlyAbove(last_known_price, current_price) ==
    100 * Abs(current_price - last_known_price) > CHANGE_THRESHOLD_PCT * last_known_price

\* lines 282-283: abs((current - last) / last) >= CHANGE_THRESHOLD
IsSignificant(last_known_price, current_price) ==
    100 * Abs(current_price - last_known_price) >= CHANGE_THRESHOLD_PCT * last_known_price

\* a variant of line 281 without the test for None
EmitsWithoutBaseline(last_known_price, current_price) ==
    IsSignificant(last_known_price, current_price)

\* line 281-284: whether the tuple is appended to changes
Emits(last_known_price, current_price) ==
    last_known_price # None /\ IsSignificant(last_known_price, current_price)

\* line 275 and the except of line 288: whether the body for this symbol
\* stops before it reads the last price
Skipped(st, current_data) ==
    current_data.raised \/ current_data.len < 1 \/ "last_prices" \notin st.keys

\* a variant in which a symbol whose body stopped ends the loop
AbortsBatch(i) == Len(SYMBOLS) + 1

\* what the loop does after a symbol whose body stopped: go on with the next
AfterSkip(i) == i + 1

\* the loop of lines 270-289 from the i-th symbol on
RECURSIVE DetectFrom(_, _, _, _, _, _, _)
DetectFrom(i, st, file, changes, fetched, writes, now) ==
    IF i > Len(SYMBOLS)
    THEN [state |-> st, disk |-> file, changes |-> changes]
    ELSE LET symbol == SYMBOLS[i]
             current_data == fetched[symbol]
         IN  IF Skipped(st, current_data)
             THEN DetectFrom(AfterSkip(i), st, file, changes, fetched, writes, now)
             ELSE LET current_price == current_data.close
                      last_known_price == get_last_price(st, symbol)
                      found == IF Emits(last_known_price, current_price)
                               THEN Append(changes, [symbol |-> symbol,
                                                     old_price |-> last_known_price,
                                                     new_price |-> current_price])
                               ELSE changes
                      upd == update_price(st, file, symbol, current_price, now, writes[symbol])
                  IN  DetectFrom(i + 1, upd.state, upd.disk, found, fetched, writes, now)

detect_significant_changes(st, file, fetched, writes, now) ==
    DetectFrom(1, st, file, <<>>, fetched, writes, now)

NoRun ==
    [ by |-> "none",
      prev |-> [s \in Symbols |-> None],
      fetched |-> [s \in Symbols |-> [raised |-> TRUE, len |-> 0, close |-> None]],
      changes |-> <<>> ]

\* the record of one call: who called, the last prices the state held when
\* it was called, what the provider answered, and the list it returned
RunRecord(by, st, fetched, changes) ==
    [ by |-> by,
      prev |-> [s \in Symbols |-> get_last_price(st, s)],
      fetched |-> fetched,
      changes |-> changes ]

----------------------------------------------------------------------------
(* Arithmetic of fetch_low_analysis.  The prices of the analysis are integer *)
(* numbers of eighths of a currency unit (800 is 100.0, 801 is 100.125, 812 *)
(* is 101.5): every one is a binary64 value, so reading, subtracting and    *)
(* comparing them is exact.  The literal 1.015 and the product by it are    *)
(* not, and are computed here as binary64 does: natural numbers too long    *)
(* for one integer are sequences of limbs, least significant first.         *)

LimbBits == 15
LimbBase == 2^LimbBits
\* the bits of a binary64 significand
SignificandBits == 53

RECURSIVE BigNorm(_)
BigNorm(x) ==
    IF Len(x) > 0 /\ x[Len(x)] = 0 THEN BigNorm(SubSeq(x, 1, Len(x) - 1)) ELSE x

RECURSIVE BigMulFrom(_, _, _, _)
BigMulFrom(x, k, i, carry) ==
    IF i > Len(x)
    THEN IF carry = 0 THEN <<>> ELSE <<carry>>
    ELSE LET t == x[i] * k + carry
         IN  <<t % LimbBase>> \o BigMulFrom(x, k, i + 1, t \div LimbBase)

\* x * k for 0 <= k < LimbBase
BigMulSmall(x, k) == BigNorm(BigMulFrom(x, k, 1, 0))

RECURSIVE BigDivFrom(_, _, _, _)
BigDivFrom(x, d, i, rem) ==
    IF i = 0
    THEN [q |-> <<>>, r |-> rem]
    ELSE LET t == rem * LimbBase + x[i]
             rest == BigDivFrom(x, d, i - 1, t % d)
         IN  [q |-> Append(rest.q, t \div d), r |-> rest.r]

\* quotient and remainder of x by d for 0 < d < LimbBase
BigDivSmall(x, d) ==
    LET qr == BigDivFrom(x, d, Len(x), 0) IN [q |-> BigNorm(qr.q), r |-> qr.r]

RECURSIVE BigAddFrom(_, _, _)
BigAddFrom(x, i, carry) ==
    IF i > Len(x)
    THEN IF carry = 0 THEN <<>> ELSE <<carry>>
    ELSE LET t == x[i] + carry
         IN  <<t % LimbBase>> \o BigAddFrom(x, i + 1, t \div LimbBase)

BigAddSmall(x, a) == BigAddFrom(x, 1, a)

\* x * 2^s
BigShiftLeft(x, s) ==
    BigNorm([i \in 1..(s \div LimbBits) |-> 0] \o BigMulSmall(x, 2^(s % LimbBits)))

BigOfSmall(n) == BigNorm(<<n % LimbBase, n \div LimbBase>>)

BigIsOdd(x) == Len(x) > 0 /\ x[1] % 2 = 1

RECURSIVE SmallBitLen(_)
SmallBitLen(n) == IF n = 0 THEN 0 ELSE 1 + SmallBitLen(n \div 2)

BigBitLen(x) == IF x = <<>> THEN 0 ELSE LimbBits * (Len(x) - 1) + SmallBitLen(x[Len(x)])

RECURSIVE BigLeqFrom(_, _, _)
BigLeqFrom(a, b, i) ==
    IF i = 0 THEN TRUE
    ELSE IF a[i] # b[i] THEN a[i] < b[i]
    ELSE BigLeqFrom(a, b, i - 1)

BigLeq(a, b) ==
    IF Len(a) # Len(b) THEN Len(a) < Len(b) ELSE BigLeqFrom(a, b, Len(a))

\* round-half-to-even of a quotient whose floor is q and remainder r of d
RoundedUp(q, r, d, odd) == 2 * r > d \/ (2 * r = d /\ odd)

\* the binary64 value m * 2^e nearest to the natural number x times 2^e0,
\* for x of at most SignificandBits + LimbBits - 1 bits
RoundToDouble(x, e0) ==
    LET k == BigBitLen(x) - SignificandBits
    IN  IF k <= 0
        THEN [m |-> x, e |-> e0]
        ELSE LET qr == BigDivSmall(x, 2^k)
             IN  [m |-> IF RoundedUp(0, qr.r, 2^k, BigIsOdd(qr.q))
                        THEN BigAddSmall(qr.q, 1) ELSE qr.q,
                  e |-> e0 + k]

\* the binary64 value of the decimal literal num / den (1 <= num / den < 2)
DoubleOfDecimal(num, den) ==
    LET qr == BigDivSmall(BigMulSmall(BigShiftLeft(<<1>>, SignificandBits - 1), num), den)
    IN  [m |-> IF RoundedUp(0, qr.r, den, BigIsOdd(qr.q))
               THEN BigAddSmall(qr.q, 1) ELSE qr.q,
         e |-> 0 - (SignificandBits - 1)]

\* line 246: the literal 1.015
LOW_FACTOR == DoubleOfDecimal(1015, 1000)

\* the exponent of the unit of the prices: eighths
PriceExp == 0 - 3

\* price * x in binary64, for a price in eighths and a binary64 x
PriceTimes(price, x) == RoundToDouble(BigMulSmall(x.m, price), x.e + PriceExp)

\* price <= y, for a price in eighths and a binary64 y
PriceLeq(price, y) ==
    BigLeq(BigShiftLeft(BigOfSmall(price), PriceExp - y.e), BigNorm(y.m))

\* a variant of line 246 with the comparison turned round
AboveTolerance(current_price, low_price) ==
    ~PriceLeq(current_price, PriceTimes(low_price, LOW_FACTOR))

\* line 246: current_price <= low_price * 1.015
IsAtLow(current_price, low_price) ==
    PriceLeq(current_price, PriceTimes(low_price, LOW_FACTOR))

\* round-half-to-even of num / den, den > 0
RoundHalfEven(num, den) ==
    LET a == Abs(num)
        q == a \div den
        r == a % den
        mag == IF RoundedUp(q, r, den, q % 2 = 1) THEN q + 1 ELSE q
    IN  IF num < 0 THEN 0 - mag ELSE mag

\* round(price, 2): a price in eighths to a number of cents
Round2(price) == RoundHalfEven(price * 100, 8)

\* a variant of line 219 that rounds to one decimal place
Change1dOneDecimal(current_price, prev_close) ==
    10 * RoundHalfEven((current_price - prev_close) * 1000, prev_close)

\* line 219: round(((current_price - prev_close) / prev_close) * 100, 2), in
\* hundredths of a percent
Change1d(current_price, prev_close) ==
    RoundHalfEven((current_price - prev_close) * 10000, prev_close)

----------------------------------------------------------------------------
(* fetch_low_analysis.  A bar is [day, low, close]: its timestamp is the    *)
(* midnight that starts the day.  full_hist is the frame the analysis works *)
(* on, oldest bar first.                                                    *)

\* the first two of the tracked periods of line 56
PERIODS == <<30, 60>>
Periods == Range(PERIODS)

Timestamp(bar) == bar.day * SecondsPerDay

\* is_low is a bool or None
NoBool == [none |-> TRUE, value |-> FALSE]
SomeBool(b) == [none |-> FALSE, value |-> b]

\* lines 235-238 and 254-257: the four fields of a period set to None
AbsentFields ==
    [low |-> None, is_low |-> NoBool, low_date |-> NoDate, days_since_low |-> None]

\* line 229-230
Filtered(hist, now, days) ==
    SelectSeq(hist, LAMBDA bar : Timestamp(bar) >= now - days * SecondsPerDay)

Max2(a, b) == IF a >= b THEN a ELSE b

\* a variant of line 232 without the half of the period
FixedMinimum(days) == 10

\* line 232: max(10, int(0.5 * days))
MinRequired(days) == Max2(10, days \div 2)

\* line 241: filtered['Low'].min()
LowPrice(filtered) ==
    LET lows == { filtered[i].low : i \in DOMAIN filtered }
    IN  CHOOSE x \in lows : \A y \in lows : x <= y

\* line 242: filtered['Low'].idxmin(), the first row that holds the minimum
IdxMin(filtered) ==
    CHOOSE i \in DOMAIN filtered :
        /\ filtered[i].low = LowPrice(filtered)
        /\ \A j \in 1..(i - 1) : filtered[j].low # LowPrice(filtered)

\* lines 241-252: the four fields when nothing raises
ComputedFields(filtered, now, current_price) ==
    LET low_price == LowPrice(filtered)
        low_day == filtered[IdxMin(filtered)].day
    IN  [ low |-> Round2(low_price),
          is_low |-> SomeBool(IsAtLow(current_price, low_price)),
          low_date |-> low_day,
          days_since_low |-> DateOf(now) - low_day ]

\* lines 249-252: the fields after the first k of the four assignments
Assigned(full, k) ==
    [ low |-> IF k >= 1 THEN full.low ELSE None,
      is_low |-> IF k >= 2 THEN full.is_low ELSE NoBool,
      low_date |-> IF k >= 3 THEN full.low_date ELSE NoDate,
      days_since_low |-> IF k >= 4 THEN full.days_since_low ELSE None ]

\* a variant of lines 253-258 that leaves the fields as the try left them
KeepsAssigned(assigned) == assigned

\* lines 253-258: the except of a period
ExceptHandler(assigned) == AbsentFields

\* where the body of a period raises: not at all, before its first
\* assignment, or after its first, second or third
FaultPoints == 0..4

\* lines 227-258: one round of the loop over PERIODS
PeriodFields(hist, now, days, current_price, fault) ==
    LET filtered == Filtered(hist, now, days)
    IN  IF fault = 1
        THEN ExceptHandler(AbsentFields)
        ELSE IF Len(filtered) < MinRequired(days)
        THEN AbsentFields
        ELSE IF fault = 0
        THEN ComputedFields(filtered, now, current_price)
        ELSE ExceptHandler(Assigned(ComputedFields(filtered, now, current_price), fault - 1))

\* lines 202-204 and 260-264: return None
Unavailable == [kind |-> "unavailable"]

\* the errors of one call: outer is an error in lines 206-224, caught at
\* line 262; at[days] is the fault point of the period
FaultChoices == [outer : BOOLEAN, at : [Periods -> FaultPoints]]

\* lines 186-264, from the frame the fetch loop ended with
fetch_low_analysis(hist, now, faults) ==
    IF hist = <<>> \/ faults.outer
    THEN Unavailable
    ELSE LET current_price == hist[Len(hist)].close
         IN  [ kind |-> "record",
               faults |-> faults,
               current |-> Round2(current_price),
               change_1d |-> IF Len(hist) >= 2
                             THEN Change1d(current_price, hist[Len(hist) - 1].close)
                             ELSE 0,
               periods |-> [days \in Periods |->
                              PeriodFields(hist, now, days, current_price, faults.at[days])] ]

\* line 193: the lookbacks, in the order the loop requests them
LOOKBACKS == <<"2y", "1y", "6mo", "3mo">>

\* what ticker.history(period=period) does: it raises, or it returns a frame
Raises == [raised |-> TRUE, frame |-> <<>>]
Returns(frame) == [raised |-> FALSE, frame |-> frame]

\* 'Low' in full_hist.columns: the bars of a frame without the column hold
\* no low
HasLow(frame) == \A i \in DOMAIN frame : frame[i].low # None

\* a variant of line 196 that accepts no frame
NeverSufficient(frame) == FALSE

\* line 196
Sufficient(frame) == frame # <<>> /\ HasLow(frame) /\ Len(frame) > 50

\* lines 193-200 from the i-th lookback on.  full is full_hist (None and the
\* empty frame are both <<>>, as line 202 treats them alike); made lists the
\* requests made so far.  A request that raises leaves full_hist as it was.
RECURSIVE FetchFrom(_, _, _, _)
FetchFrom(i, full, made, answers) ==
    IF i > Len(LOOKBACKS)
    THEN [full_hist |-> full, requests |-> made]
    ELSE LET answer == answers[i]
             made_now == Append(made, [period |-> LOOKBACKS[i], answer |-> answer])
         IN  IF answer.raised
             THEN FetchFrom(i + 1, full, made_now, answers)
             ELSE IF Sufficient(answer.frame)
             THEN [full_hist |-> answer.frame, requests |-> made_now]
             ELSE FetchFrom(i + 1, answer.frame, made_now, answers)

\* the errors the analysis of a frame can meet: on a frame without the Low
\* column line 241 raises in every period
FaultsOf(frame) ==
    { faults \in FaultChoices :
        ~HasLow(frame) => \A days \in Periods : faults.at[days] = 1 }

\* lines 186-264 with the fetch loop
fetch_with_fallback(answers, now, faults) ==
    LET fetched == FetchFrom(1, <<>>, <<>>, answers)
    IN  [ requests |-> fetched.requests,
          full_hist |-> fetched.full_hist,
          result |-> fetch_low_analysis(fetched.full_hist, now, faults) ]

----------------------------------------------------------------------------
(* send_to_all_users *)

NoBatch ==
    [kind |-> "none", active_users |-> {}, remaining |-> {}, sent_count |-> 0, failed_count |-> 0]

\* lines 146-148
NewBatch(kind, st) ==
    [kind |-> kind, active_users |-> get_active_users(st),
     remaining |-> get_active_users(st), sent_count |-> 0, failed_count |-> 0]

\* a variant of lines 150-157 in which a send that raises ends the loop
AbortsOnFailure(b, chat_id, ok) ==
    [b EXCEPT !.remaining = IF ok THEN @ \ {chat_id} ELSE {},
              !.sent_count = IF ok THEN @ + 1 ELSE @,
              !.failed_count = IF ok THEN @ ELSE @ + 1]

\* lines 151-157: one bot.send_message returned (ok) or raised
Delivered(b, chat_id, ok) ==
    [b EXCEPT !.remaining = @ \ {chat_id},
              !.sent_count = IF ok THEN @ + 1 ELSE @,
              !.failed_count = IF ok THEN @ ELSE @ + 1]

----------------------------------------------------------------------------
(* automated_monitoring *)

\* line 588
IsReportTime(t) == Hour(t) = REPORT_HOUR /\ Minute(t) = REPORT_MINUTE

\* a variant of line 596 without the test of the minute
IgnoresMinute(t) ==
    Hour(t) >= MARKET_OPEN_HOUR /\ Hour(t) <= MARKET_CLOSE_HOUR

\* line 596
InMarketWindow(t) ==
    /\ Hour(t) >= MARKET_OPEN_HOUR
    /\ Hour(t) <= MARKET_CLOSE_HOUR
    /\ Minute(t) % CHECK_INTERVAL_MINUTES = 0

\* line 588 against line 596: the branch of the if/elif the tick takes
TakesDailyBranch(t) == IsReportTime(t)
TakesCheckBranch(t) == ~IsReportTime(t) /\ InMarketWindow(t)

\* a variant of line 593 that marks the day only when every delivery succeeded
MarksIfAllDelivered(b) == b.failed_count = 0

\* line 593: whether the day is marked after the batch with these counts
MarksAfter(b) == TRUE

\* a variant of lines 609-611 in which the error ends the loop
StopsOnError == "stopped"

\* lines 609-611: where the loop is after an error in the tick
AfterError == "backoff"

\* a variant of lines 609-611 that marks the day when a tick raised
MarksOnError(st, now) ==
    [st EXCEPT !.keys = @ \cup {"last_notification"}, !.last_notification = DateOf(now)]

\* lines 609-611: the state after the except of the loop, which touches none
ErrorLeaves(st, now) == st

LoopStates == {"idle", "daily", "alert", "sleep", "backoff"}

\* reports[d] lists, for each daily-report batch started on day d, the number
\* of its deliveries that failed so far
WithCounts(rs, d, b) == [rs EXCEPT ![d] = [@ EXCEPT ![Len(@)] = b.failed_count]]

\* lines 588-592: the report is built and the first send is started
TickDailyReport ==
    /\ pc = "idle"
    /\ TakesDailyBranch(clock)
    /\ should_send_notification(state, clock)
    /\ current_time' = clock
    /\ batch' = NewBatch("daily", state)
    /\ reports' = [reports EXCEPT ![DateOf(clock)] = Append(@, 0)]
    /\ pc' = "daily"
    /\ UNCHANGED <<clock, state, disk, run, cmds, last_call, full_hist, result, requests, next_run, daily_sent>>

\* lines 588-589, 607: the report of today was sent already
TickDailySkip ==
    /\ pc = "idle"
    /\ TakesDailyBranch(clock)
    /\ ~should_send_notification(state, clock)
    /\ current_time' = clock
    /\ pc' = "sleep"
    /\ UNCHANGED <<clock, state, disk, batch, run, reports, cmds, last_call, full_hist, result, requests, next_run, daily_sent>>

\* lines 596-605
TickChangeCheck ==
    /\ pc = "idle"
    /\ TakesCheckBranch(clock)
    /\ \E fetched \in Fetches, writes \in [Symbols -> WriteOutcomes] :
         LET r == detect_significant_changes(state, disk, fetched, writes, clock)
         IN  /\ state' = r.state
             /\ disk' = r.disk
             /\ run' = RunRecord("monitor", state, fetched, r.changes)
             /\ IF r.changes # <<>>
                THEN pc' = "alert" /\ batch' = NewBatch("alert", r.state)
                ELSE pc' = "sleep" /\ UNCHANGED batch
    /\ current_time' = clock
    /\ UNCHANGED <<clock, reports, cmds, last_call, full_hist, result, requests, next_run, daily_sent>>

\* line 607 alone: neither branch is taken
TickQuiet ==
    /\ pc = "idle"
    /\ ~TakesDailyBranch(clock)
    /\ ~TakesCheckBranch(clock)
    /\ current_time' = clock
    /\ pc' = "sleep"
    /\ UNCHANGED <<clock, state, disk, batch, run, reports, cmds, last_call, full_hist, result, requests, next_run, daily_sent>>

\* an exception escapes line 591 or the start of line 592 (build_report, or
\* get_active_users before the first send): lines 609-611
TickDailyRaise ==
    /\ pc = "idle"
    /\ clock < EndOfTime
    /\ TakesDailyBranch(clock)
    /\ should_send_notification(state, clock)
    /\ current_time' = clock
    /\ pc' = AfterError
    /\ state' = ErrorLeaves(state, clock)
    /\ UNCHANGED <<clock, disk, batch, run, reports, cmds, last_call, full_hist, result, requests, next_run, daily_sent>>

\* an exception escapes lines 599-605 after the detector returned changes
TickCheckRaise ==
    /\ pc = "idle"
    /\ clock < EndOfTime
    /\ TakesCheckBranch(clock)
    /\ \E fetched \in Fetches, writes \in [Symbols -> WriteOutcomes] :
         LET r == detect_significant_changes(state, disk, fetched, writes, clock)
         IN  /\ r.changes # <<>>
             /\ state' = r.state
             /\ disk' = r.disk
             /\ run' = RunRecord("monitor", state, fetched, r.changes)
    /\ current_time' = clock
    /\ pc' = AfterError
    /\ UNCHANGED <<clock, batch, reports, cmds, last_call, full_hist, result, requests, next_run, daily_sent>>

\* one send of the running batch ends and the next is started
Deliver ==
    /\ pc \in {"daily", "alert"}
    /\ Cardinality(batch.remaining) > 1
    /\ \E chat_id \in batch.remaining, ok \in BOOLEAN, t \in During(clock) :
         /\ batch' = Delivered(batch, chat_id, ok)
         /\ clock' = t
         /\ reports' = IF pc = "daily"
                       THEN WithCounts(reports, DateOf(current_time), Delivered(batch, chat_id, ok))
                       ELSE reports
    /\ UNCHANGED <<state, disk, pc, current_time, run, cmds, last_call, full_hist, result, requests, next_run, daily_sent>>

\* the last send of the daily report ends: lines 159-160, 593, 607
DailyDone ==
    /\ pc = "daily"
    /\ Cardinality(batch.remaining) = 1
    /\ \E chat_id \in batch.remaining, ok \in BOOLEAN, t \in During(clock),
          outcome \in WriteOutcomes :
         LET b == Delivered(batch, chat_id, ok)
             m == mark_notification_sent(state, disk, t, outcome)
         IN  /\ batch' = b
             /\ clock' = t
             /\ reports' = WithCounts(reports, DateOf(current_time), b)
             /\ IF MarksAfter(b)
                THEN state' = m.state /\ disk' = m.disk
                ELSE UNCHANGED <<state, disk>>
    /\ pc' = "sleep"
    /\ UNCHANGED <<current_time, run, cmds, last_call, full_hist, result, requests, next_run, daily_sent>>

\* the last send of an alert ends: lines 159-160, 607
AlertDone ==
    /\ pc = "alert"
    /\ Cardinality(batch.remaining) = 1
    /\ \E chat_id \in batch.remaining, ok \in BOOLEAN, t \in During(clock) :
         /\ batch' = Delivered(batch, chat_id, ok)
         /\ clock' = t
    /\ pc' = "sleep"
    /\ UNCHANGED <<state, disk, current_time, run, reports, cmds, last_call, full_hist, result, requests, next_run, daily_sent>>

\* line 607: asyncio.sleep(60) returns
Wake ==
    /\ pc = "sleep"
    /\ clock' \in After(clock, TICK_SLEEP)
    /\ pc' = "idle"
    /\ batch' = NoBatch
    /\ run' = NoRun
    /\ UNCHANGED <<state, disk, current_time, reports, cmds, last_call, full_hist, result, requests, next_run, daily_sent>>

\* line 611: asyncio.sleep(300) returns
BackoffWake ==
    /\ pc = "backoff"
    /\ clock' \in After(clock, BACKOFF_SLEEP)
    /\ pc' = "idle"
    /\ batch' = NoBatch
    /\ run' = NoRun
    /\ UNCHANGED <<state, disk, current_time, reports, cmds, last_call, full_hist, result, requests, next_run, daily_sent>>

Monitor ==
    \/ TickDailyReport \/ TickDailySkip \/ TickChangeCheck \/ TickQuiet
    \/ TickDailyRaise \/ TickCheckRaise
    \/ Deliver \/ DailyDone \/ AlertDone
    \/ Wake \/ BackoffWake

----------------------------------------------------------------------------
(* Commands.  The event loop runs a handler only while the monitoring task  *)
(* is suspended in a send or in a sleep, and a handler that changes the     *)
(* state does so without suspending.                                        *)

Suspended == pc \in {"daily", "alert", "sleep", "backoff"}

\* alerts_command, lines 405-425
AlertsCommand ==
    /\ Suspended
    /\ cmds < MaxCommands
    /\ \E fetched \in Fetches, writes \in [Symbols -> WriteOutcomes] :
         LET r == detect_significant_changes(state, disk, fetched, writes, clock)
         IN  /\ state' = r.state
             /\ disk' = r.disk
             /\ run' = RunRecord("alerts", state, fetched, r.changes)
    /\ cmds' = cmds + 1
    /\ UNCHANGED <<clock, pc, current_time, batch, reports, last_call, full_hist, result, requests, next_run, daily_sent>>

\* subscribe_command, lines 427-444
SubscribeCommand ==
    /\ Suspended
    /\ cmds < MaxCommands
    /\ \E chat_id \in Subscribers, outcome \in WriteOutcomes :
         LET r == add_user(state, disk, chat_id, clock, outcome)
         IN  state' = r.state /\ disk' = r.disk
    /\ cmds' = cmds + 1
    /\ UNCHANGED <<clock, pc, current_time, batch, run, reports, last_call, full_hist, result, requests, next_run, daily_sent>>

\* unsubscribe_command, lines 446-459
UnsubscribeCommand ==
    /\ Suspended
    /\ cmds < MaxCommands
    /\ \E chat_id \in Subscribers, outcome \in WriteOutcomes :
         LET r == remove_user(state, disk, chat_id, outcome)
         IN  state' = r.state /\ disk' = r.disk
    /\ cmds' = cmds + 1
    /\ UNCHANGED <<clock, pc, current_time, batch, run, reports, last_call, full_hist, result, requests, next_run, daily_sent>>

\* a variant of build_report that marks the day as sent
ReportMarksDay(st, now) ==
    [st EXCEPT !.keys = @ \cup {"last_notification"}, !.last_notification = DateOf(now)]

\* build_report, lines 293-360: the state after the call, which reads and
\* writes none of it
AfterBuildReport(st, now) == st

\* what report_command and detailed_command replied
Replied(op, chat_id, text) ==
    [op |-> op, arg |-> chat_id, raised |-> FALSE, text |-> text, recipients |-> {}, shown |-> {}]

\* report_command, lines 381-388: build_report returns, or raises into the
\* except of line 386
ReportCommand ==
    /\ Suspended
    /\ cmds < MaxCommands
    /\ \E chat_id \in ChatIds, built \in BOOLEAN :
         last_call' = Replied("report", chat_id, IF built THEN "report" ELSE "report_failed")
    /\ state' = AfterBuildReport(state, clock)
    /\ cmds' = cmds + 1
    /\ UNCHANGED <<clock, disk, pc, current_time, batch, run, reports, full_hist, result, requests, next_run, daily_sent>>

\* detailed_command, lines 390-403
DetailedCommand ==
    /\ Suspended
    /\ cmds < MaxCommands
    /\ \E chat_id \in ChatIds, built \in BOOLEAN :
         last_call' = Replied("detailed", chat_id, IF built THEN "detailed_report" ELSE "report_failed")
    /\ state' = AfterBuildReport(state, clock)
    /\ cmds' = cmds + 1
    /\ UNCHANGED <<clock, disk, pc, current_time, batch, run, reports, full_hist, result, requests, next_run, daily_sent>>

\* a variant of lines 466, 498 and 535 that lets every chat through
EveryoneIsAdmin(chat_id) == TRUE

\* lines 466, 498 and 535: chat_id in CHAT_IDS
IsAdmin(chat_id) == chat_id \in Range(CHAT_IDS)

\* lines 467-468, 499-500 and 536-537: the reply to a chat that is no admin
AdminRequired(op, chat_id) ==
    [op |-> op, arg |-> chat_id, raised |-> FALSE, text |-> "admin_required",
     recipients |-> {}, shown |-> {}]

\* what an admin command produced: the reply to the caller, the chats
\* send_to_all_users sent to, and the chats whose data the reply shows
Produced(op, chat_id, text, recipients, shown) ==
    [op |-> op, arg |-> chat_id, raised |-> FALSE, text |-> text,
     recipients |-> recipients, shown |-> shown]

\* users_command, lines 461-491
UsersCommand(chat_id) ==
    /\ Suspended
    /\ cmds < MaxCommands
    /\ last_call' = IF ~IsAdmin(chat_id)
                    THEN AdminRequired("users", chat_id)
                    ELSE Produced("users", chat_id, "user_list", {}, get_active_users(state))
    /\ cmds' = cmds + 1
    /\ UNCHANGED <<clock, state, disk, pc, current_time, batch, run, reports, full_hist, result, requests, next_run, daily_sent>>

\* test_alert_command, lines 493-528
TestAlertCommand(chat_id) ==
    /\ Suspended
    /\ cmds < MaxCommands
    /\ last_call' = IF ~IsAdmin(chat_id)
                    THEN AdminRequired("test", chat_id)
                    ELSE Produced("test", chat_id, "test_results", get_active_users(state), {})
    /\ cmds' = cmds + 1
    /\ UNCHANGED <<clock, state, disk, pc, current_time, batch, run, reports, full_hist, result, requests, next_run, daily_sent>>

\* test_9am_command, lines 530-559: build_report returns, or raises into the
\* except of line 557
Test9amCommand(chat_id) ==
    /\ Suspended
    /\ cmds < MaxCommands
    /\ \E built \in BOOLEAN :
         /\ last_call' = IF ~IsAdmin(chat_id)
                      THEN AdminRequired("test9am", chat_id)
                      ELSE IF built
                      THEN Produced("test9am", chat_id, "test_results", get_active_users(state), {})
                      ELSE Produced("test9am", chat_id, "test_failed", {}, {})
         /\ state' = IF IsAdmin(chat_id) THEN AfterBuildReport(state, clock) ELSE state
    /\ cmds' = cmds + 1
    /\ UNCHANGED <<clock, disk, pc, current_time, batch, run, reports, full_hist, result, requests, next_run, daily_sent>>

AdminCommand ==
    \E chat_id \in ChatIds :
        UsersCommand(chat_id) \/ TestAlertCommand(chat_id) \/ Test9amCommand(chat_id)

----------------------------------------------------------------------------
(* The process *)

\* a document this program saved on the day before the run
SavedState(last_notification) ==
    [ keys |-> {"last_prices", "last_notification", "alerts", "price_history", "users"},
      last_prices |-> Put(EmptyDict, "SPY", 1000),
      price_history |-> Put(EmptyDict, "SPY", Put(EmptyDict, 0, 1000)),
      last_notification |-> last_notification,
      users |-> Put(EmptyDict, "u1", [username |-> Username("u1"), added_date |-> 0, active |-> TRUE]) ]

StartFiles == { MissingFile, JsonFile(SavedState(0)), JsonFile(SavedState(1)) }

\* the process is started before the report time of day 1
StartTimes == { SecondsPerDay + HMS(8, 30, 0) }

Init ==
    /\ disk \in StartFiles
    /\ state = load_state(disk)
    /\ clock \in StartTimes
    /\ pc = "idle"
    /\ current_time = clock
    /\ batch = NoBatch
    /\ run = NoRun
    /\ reports = [d \in Days |-> <<>>]
    /\ cmds = 0
    /\ last_call = NoCall
    /\ full_hist = <<>>
    /\ result = NoResult
    /\ requests = <<>>
    /\ next_run = None
    /\ daily_sent = {}

Next ==
    \/ Monitor
    \/ AlertsCommand
    \/ SubscribeCommand
    \/ UnsubscribeCommand
    \/ AdminCommand
    \/ ReportCommand
    \/ DetailedCommand

Spec == Init /\ [][Next]_vars

\* the scheduling of the event loop: the monitoring task is resumed whenever
\* the sleep or the send it awaits has ended
LiveSpec == Spec /\ WF_vars(Monitor)

----------------------------------------------------------------------------
(* The StateManager alone: its methods called in any order on any document  *)
(* load_state can return                                                    *)

\* a JSON document without the "last_prices" key
NoPricesDoc ==
    [ keys |-> {"last_notification"},
      last_prices |-> EmptyDict,
      price_history |-> EmptyDict,
      last_notification |-> NoDate,
      users |-> EmptyDict ]

StoreFiles == { MissingFile, CorruptFile, JsonFile(SavedState(0)), JsonFile(NoPricesDoc) }

StoreInit ==
    /\ disk \in StoreFiles
    /\ state = load_state(disk)
    /\ clock \in StartTimes
    /\ pc = "idle"
    /\ current_time = clock
    /\ batch = NoBatch
    /\ run = NoRun
    /\ reports = [d \in Days |-> <<>>]
    /\ cmds = 0
    /\ last_call = NoCall
    /\ full_hist = <<>>
    /\ result = NoResult
    /\ requests = <<>>
    /\ next_run = None
    /\ daily_sent = {}

\* a call of update_price
StoreUpdatePrice ==
    /\ \E symbol \in Symbols, outcome \in WriteOutcomes :
         \E price \in PricesOf(symbol) :
           LET r == update_price(state, disk, symbol, price, clock, outcome)
           IN  /\ state' = r.state
               /\ disk' = r.disk
               /\ last_call' = MethodCall("update_price", symbol, r.raised, {})
    /\ UNCHANGED <<clock, pc, current_time, batch, run, reports, cmds, full_hist, result, requests, next_run, daily_sent>>

\* a call of get_last_price
StoreGetLastPrice ==
    /\ \E symbol \in Symbols :
         last_call' = MethodCall("get_last_price", symbol, "last_prices" \notin state.keys, {})
    /\ UNCHANGED <<clock, state, disk, pc, current_time, batch, run, reports, cmds, full_hist, result, requests, next_run, daily_sent>>

\* a call of should_send_notification
StoreShouldSend ==
    /\ last_call' = MethodCall("should_send_notification", "", FALSE, {})
    /\ UNCHANGED <<clock, state, disk, pc, current_time, batch, run, reports, cmds, full_hist, result, requests, next_run, daily_sent>>

\* time passes between two calls
StoreElapse ==
    /\ clock' \in { u \in Instants : u > clock }
    /\ UNCHANGED <<state, disk, pc, current_time, batch, run, reports, cmds, last_call, full_hist, result, requests, next_run, daily_sent>>

StoreNext == StoreUpdatePrice \/ StoreGetLastPrice \/ StoreShouldSend \/ StoreElapse

SpecStore == StoreInit /\ [][StoreNext]_vars

----------------------------------------------------------------------------
(* The user registry alone: add_user, remove_user and get_active_users      *)
(* called in any order, for the administrator and for a subscriber          *)

RegistryFiles == { MissingFile, JsonFile(SavedState(0)) }

RegistryInit ==
    /\ disk \in RegistryFiles
    /\ state = load_state(disk)
    /\ clock \in StartTimes
    /\ pc = "idle"
    /\ current_time = clock
    /\ batch = NoBatch
    /\ run = NoRun
    /\ reports = [d \in Days |-> <<>>]
    /\ cmds = 0
    /\ last_call = NoCall
    /\ full_hist = <<>>
    /\ result = NoResult
    /\ requests = <<>>
    /\ next_run = None
    /\ daily_sent = {}

\* a call of add_user(chat_id, username)
RegAddUser(chat_id) ==
    /\ \E outcome \in WriteOutcomes :
         LET r == add_user(state, disk, chat_id, clock, outcome)
         IN  state' = r.state /\ disk' = r.disk
    /\ last_call' = MethodCall("add_user", chat_id, FALSE, {})
    /\ UNCHANGED <<clock, pc, current_time, batch, run, reports, cmds, full_hist, result, requests, next_run, daily_sent>>

\* a call of remove_user(chat_id)
RegRemoveUser(chat_id) ==
    /\ \E outcome \in WriteOutcomes :
         LET r == remove_user(state, disk, chat_id, outcome)
         IN  state' = r.state /\ disk' = r.disk
    /\ last_call' = MethodCall("remove_user", chat_id, FALSE, {})
    /\ UNCHANGED <<clock, pc, current_time, batch, run, reports, cmds, full_hist, result, requests, next_run, daily_sent>>

\* a call of get_active_users
RegGetActiveUsers ==
    /\ last_call' = MethodCall("get_active_users", "", FALSE, get_active_users(state))
    /\ UNCHANGED <<clock, state, disk, pc, current_time, batch, run, reports, cmds, full_hist, result, requests, next_run, daily_sent>>

\* time passes between two calls
RegElapse ==
    /\ clock' \in { u \in Instants : u > clock }
    /\ UNCHANGED <<state, disk, pc, current_time, batch, run, reports, cmds, last_call, full_hist, result, requests, next_run, daily_sent>>

RegSubscribe == \E chat_id \in ChatIds : RegAddUser(chat_id)
RegUnsubscribe == \E chat_id \in ChatIds : RegRemoveUser(chat_id)

RegistryNext == RegSubscribe \/ RegUnsubscribe \/ RegGetActiveUsers \/ RegElapse

SpecRegistry == RegistryInit /\ [][RegistryNext]_vars

----------------------------------------------------------------------------
(* fetch_low_analysis alone, on daily bars that end today or yesterday      *)

\* the day of the call
AnalysisDay == 100
\* the call is made at midnight or at 10:00
AnalysisTimes == { AnalysisDay * SecondsPerDay, AnalysisDay * SecondsPerDay + HMS(10, 0, 0) }

BarCounts == {0, 1, 2, 14, 15, 29, 30, 31, 40}
\* the Low of a bar that is no dip, and the Lows of the dips
BaseLow == 804
DipLows == {800, 801}
\* the Close of the last bar and of the bars before it
LastCloses == {812, 813, 824}
PrevCloses == {808, 824}

\* n daily bars, the last one lag days old, with the dips at the given rows
History(n, lag, dips, dip, last, prev) ==
    [ i \in 1..n |->
        [ day |-> AnalysisDay - lag - (n - i),
          low |-> IF i \in dips THEN dip ELSE BaseLow,
          close |-> IF i = n THEN last ELSE prev ] ]

\* the rows a dip can be at: the first, the middle and the last
DipRows(n) == SUBSET ({1, (n + 1) \div 2, n} \cap (1..n))

LowsInit ==
    /\ \E n \in BarCounts, lag \in {0, 1}, dip \in DipLows,
          last \in LastCloses, prev \in PrevCloses :
         \E dips \in DipRows(n) :
            full_hist = History(n, lag, dips, dip, last, prev)
    /\ clock \in AnalysisTimes
    /\ result = NoResult
    /\ disk = MissingFile
    /\ state = load_state(disk)
    /\ pc = "idle"
    /\ current_time = clock
    /\ batch = NoBatch
    /\ run = NoRun
    /\ reports = [d \in Days |-> <<>>]
    /\ cmds = 0
    /\ last_call = NoCall
    /\ requests = <<>>
    /\ next_run = None
    /\ daily_sent = {}

\* the call of fetch_low_analysis on the frame that was drawn
FetchLowAnalysis ==
    /\ result = NoResult
    /\ \E faults \in FaultChoices :
         result' = fetch_low_analysis(full_hist, clock, faults)
    /\ UNCHANGED <<clock, state, disk, pc, current_time, batch, run, reports, cmds,
                   last_call, full_hist, requests, next_run, daily_sent>>

LowsNext == FetchLowAnalysis

SpecLows == LowsInit /\ [][LowsNext]_vars

----------------------------------------------------------------------------
(* fetch_low_analysis with its fetch loop, on the answers of the provider   *)

\* the frame the provider returns for the i-th lookback: n daily bars that
\* end today, the last Close telling the lookbacks apart
FrameOf(i, n) == History(n, 0, {1}, 800, 812 + i, 808)

\* the same frame without the Low column
WithoutLow(frame) == [ i \in DOMAIN frame |-> [frame[i] EXCEPT !.low = None] ]

\* the answers to the i-th lookback: an error, an empty frame, 50 and 51
\* bars, and 60 bars without the Low column
AnswersTo(i) ==
    { Raises, Returns(<<>>), Returns(FrameOf(i, 50)), Returns(FrameOf(i, 51)),
      Returns(WithoutLow(FrameOf(i, 60))) }

ProviderAnswers ==
    { answers \in [DOMAIN LOOKBACKS -> UNION { AnswersTo(i) : i \in DOMAIN LOOKBACKS }] :
        \A i \in DOMAIN LOOKBACKS : answers[i] \in AnswersTo(i) }

FetchInit ==
    /\ clock \in AnalysisTimes
    /\ full_hist = <<>>
    /\ result = NoResult
    /\ requests = <<>>
    /\ disk = MissingFile
    /\ state = load_state(disk)
    /\ pc = "idle"
    /\ current_time = clock
    /\ batch = NoBatch
    /\ run = NoRun
    /\ reports = [d \in Days |-> <<>>]
    /\ cmds = 0
    /\ last_call = NoCall
    /\ next_run = None
    /\ daily_sent = {}

\* one call of fetch_low_analysis
FetchWithFallback ==
    /\ result = NoResult
    /\ \E answers \in ProviderAnswers :
         \E faults \in FaultsOf(FetchFrom(1, <<>>, <<>>, answers).full_hist) :
            LET r == fetch_with_fallback(answers, clock, faults)
            IN  /\ requests' = r.requests
                /\ full_hist' = r.full_hist
                /\ result' = r.result
    /\ UNCHANGED <<clock, state, disk, pc, current_time, batch, run, reports, cmds,
                   last_call, next_run, daily_sent>>

FetchNext == FetchWithFallback

SpecFetch == FetchInit /\ [][FetchNext]_vars

----------------------------------------------------------------------------
(* setup.py: schedule_daily_reports, the scheduler that sleeps until the     *)
(* next 09:00.  The calendar is a run of months of MonthLength days; day 1  *)
(* of the clock is the first day of a month.                                *)

\* the number of days of the months the run goes through
MonthLength == 30
\* now.day
DayOfMonth(t) == ((DateOf(t) - 1) % MonthLength) + 1

\* line 198: time(9, 0)
TargetTime == HMS(9, 0, 0)
\* line 216
SCHEDULER_BACKOFF == 3600

\* now.replace(hour=9, minute=0, second=0, microsecond=0)
AtTarget(t) == DateOf(t) * SecondsPerDay + TargetTime

\* line 203: replace(day=next_run.day + 1) raises ValueError when the month
\* has no such day
ReplaceDayRaises(t) == DayOfMonth(t) + 1 > MonthLength

\* lines 202-203: the next_run of the branch "tomorrow"
Tomorrow(now) ==
    IF ReplaceDayRaises(now)
    THEN [raised |-> TRUE, next_run |-> None]
    ELSE [raised |-> FALSE, next_run |-> AtTarget(now) + SecondsPerDay]

\* lines 197-206
ComputeNextRun(now) ==
    IF now % SecondsPerDay >= TargetTime
    THEN Tomorrow(now)
    ELSE [raised |-> FALSE, next_run |-> AtTarget(now)]

\* the scheduler is started on the last two days of a month
ScheduleStarts ==
    { d * SecondsPerDay + s : d \in {MonthLength - 1, MonthLength},
                              s \in {HMS(8, 0, 0), HMS(8, 59, 59), HMS(9, 0, 0), HMS(12, 0, 30), HMS(23, 30, 0)} }
\* the run is followed to the end of the second day of the next month
ScheduleEnd == (MonthLength + 3) * SecondsPerDay
\* seconds by which asyncio.sleep returns late
Lateness == {0, 1}
\* seconds send_daily_report takes
SendDurations == {2, 40}

ScheduleInit ==
    /\ clock \in ScheduleStarts
    /\ pc = "schedule"
    /\ current_time = clock
    /\ next_run = None
    /\ daily_sent = {}
    /\ disk = MissingFile
    /\ state = load_state(disk)
    /\ batch = NoBatch
    /\ run = NoRun
    /\ reports = [d \in Days |-> <<>>]
    /\ cmds = 0
    /\ last_call = NoCall
    /\ full_hist = <<>>
    /\ result = NoResult
    /\ requests = <<>>

\* lines 197-211: now is read, next_run is computed and the sleep begins
ScheduleCompute ==
    /\ pc = "schedule"
    /\ clock < ScheduleEnd
    /\ ~ComputeNextRun(clock).raised
    /\ current_time' = clock
    /\ next_run' = ComputeNextRun(clock).next_run
    /\ pc' = "until_next_run"
    /\ UNCHANGED <<clock, state, disk, batch, run, reports, cmds, last_call, full_hist,
                   result, requests, daily_sent>>

\* lines 203, 214-216: replace raises and the hour of back-off begins
ScheduleRaise ==
    /\ pc = "schedule"
    /\ clock < ScheduleEnd
    /\ ComputeNextRun(clock).raised
    /\ current_time' = clock
    /\ pc' = "back_off"
    /\ UNCHANGED <<clock, state, disk, batch, run, reports, cmds, last_call, full_hist,
                   result, requests, next_run, daily_sent>>

\* lines 211-212: the sleep ends and send_daily_report is called
ScheduleWake ==
    /\ pc = "until_next_run"
    /\ \E late \in Lateness : clock' = next_run + late
    /\ daily_sent' = daily_sent \cup {clock'}
    /\ pc' = "send_daily_report"
    /\ UNCHANGED <<state, disk, current_time, batch, run, reports, cmds, last_call, full_hist,
                   result, requests, next_run>>

\* lines 117-133: send_daily_report returns, having sent or logged its error
ScheduleSent ==
    /\ pc = "send_daily_report"
    /\ \E d \in SendDurations : clock' = clock + d
    /\ pc' = "schedule"
    /\ UNCHANGED <<state, disk, current_time, batch, run, reports, cmds, last_call, full_hist,
                   result, requests, next_run, daily_sent>>

\* line 216: the sleep of the back-off ends
ScheduleBackoffWake ==
    /\ pc = "back_off"
    /\ \E late \in Lateness : clock' = clock + SCHEDULER_BACKOFF + late
    /\ pc' = "schedule"
    /\ UNCHANGED <<state, disk, current_time, batch, run, reports, cmds, last_call, full_hist,
                   result, requests, next_run, daily_sent>>

ScheduleNext ==
    \/ ScheduleCompute \/ ScheduleRaise \/ ScheduleWake \/ ScheduleSent \/ ScheduleBackoffWake

SpecSchedule == ScheduleInit /\ [][ScheduleNext]_vars

----------------------------------------------------------------------------
(* Properties *)

\* the provider answered with at least one row
Answered(f) == ~f.raised /\ f.len >= 1

\* the records of the last run's result that are about symbol s
ChangesOf(s) == { run.changes[i] : i \in { j \in DOMAIN run.changes : run.changes[j].symbol = s } }

\* C1: the monitoring loop sends the daily report at most once for each
\* calendar day, whatever commands, delivery failures and write failures
\* occur in the run.
C1_AtMostOneReportPerDay == \A d \in Days : Len(reports[d]) <= 1

\* a second tick falls in the report minute after a report with a failed
\* delivery was sent, a command was handled and the last write failed
C1_Witness ==
    \E d \in Days :
        /\ Len(reports[d]) = 1
        /\ reports[d][1] > 0
        /\ cmds > 0
        /\ disk.kind = "corrupt"
        /\ pc = "sleep"
        /\ current_time = d * SecondsPerDay + HMS(9, 0, 59)

\* C2: a tick at 09:00 sends nothing when last_notification is today; when it
\* is not today the tick (unless an error sends it to the back-off) starts one
\* report to every active user, and last_notification is today when the tick
\* completes.
C2_ReportTick ==
    [][ /\ ( /\ pc = "idle" /\ pc' # "idle"
             /\ IsReportTime(clock)
             /\ state.last_notification = DateOf(clock) )
           => (pc' = "sleep" /\ reports' = reports /\ state' = state)
        /\ ( /\ pc = "idle" /\ pc' \notin {"idle", "backoff"}
             /\ IsReportTime(clock)
             /\ state.last_notification # DateOf(clock) )
           => ( /\ pc' = "daily"
                /\ reports'[DateOf(clock)] = Append(reports[DateOf(clock)], 0)
                /\ batch'.kind = "daily"
                /\ batch'.remaining = get_active_users(state)
                /\ batch'.remaining # {} )
        /\ (pc = "daily" /\ pc' # "daily")
           => ( /\ pc' = "sleep"
                /\ batch'.remaining = {}
                /\ state'.last_notification = DateOf(current_time) )
      ]_vars

\* the report of today went out to both recipients and the tick completed
C2_Witness ==
    /\ pc = "sleep"
    /\ batch.kind = "daily"
    /\ batch.sent_count = 2
    /\ IsReportTime(current_time)
    /\ reports[DateOf(current_time)] = <<0>>
    /\ state.last_notification = DateOf(current_time)

\* C3: once a daily report whose delivery failed for some or all recipients
\* has been sent, last_notification is that day, and for the rest of the day
\* no tick sends the report again.
C3_MarkedDespiteFailures ==
    \A d \in Days :
        ( /\ reports[d] # <<>>
          /\ reports[d][1] > 0
          /\ pc # "daily"
          /\ DateOf(clock) = d )
        => ( /\ state.last_notification = d
             /\ ~should_send_notification(state, clock)
             /\ Len(reports[d]) = 1 )

\* every delivery of the report failed, and a later tick of the report minute
\* sent nothing
C3_Witness ==
    \E d \in Days :
        /\ reports[d] = <<2>>
        /\ batch = NoBatch
        /\ pc = "sleep"
        /\ current_time = d * SecondsPerDay + HMS(9, 0, 59)
        /\ clock = current_time

\* C4: on every tick whose hour is in 9..16 and whose minute is a multiple of
\* 30 the loop runs the detector, and when the detector returns a change it
\* starts one alert to every active user.
C4_CheckOnEveryAlignedTick ==
    [][ ( /\ pc = "idle" /\ pc' \notin {"idle", "backoff"}
          /\ InMarketWindow(clock) )
        => ( /\ run'.by = "monitor"
             /\ run'.changes # <<>> =>
                  ( /\ pc' = "alert"
                    /\ batch'.kind = "alert"
                    /\ batch'.remaining = get_active_users(state') ) )
      ]_vars

\* C5: a symbol that had no recorded price when the detector observed it gets
\* no change record; the observation becomes its last price and the only
\* entry of its history.
C5_FirstObservationIsBaseline ==
    \A s \in Symbols :
        (run.by # "none" /\ Answered(run.fetched[s]) /\ run.prev[s] = None)
        => ( /\ ChangesOf(s) = {}
             /\ get_last_price(state, s) = run.fetched[s].close
             /\ get_price_history(state, s)
                  = Put(EmptyDict, DateOf(clock), run.fetched[s].close) )

\* both symbols were observed for the first time in one run
C5_Witness ==
    /\ run.by = "monitor"
    /\ \A s \in Symbols : Answered(run.fetched[s]) /\ run.prev[s] = None
    /\ run.changes = <<>>

\* C6: for a symbol with recorded price p and observed price c the detector
\* returns the record (symbol, p, c) if and only if |c - p| / p >= 0.02, the
\* boundary included, and no other record for the symbol.
C6_EmitsIffThreshold ==
    \A s \in Symbols :
        (run.by # "none" /\ Answered(run.fetched[s]) /\ run.prev[s] # None)
        => LET p == run.prev[s]
               c == run.fetched[s].close
           IN  ChangesOf(s) =
                 IF 50 * Abs(c - p) >= p
                 THEN { [symbol |-> s, old_price |-> p, new_price |-> c] }
                 ELSE {}

\* 100.0 to 102.0 is reported for one symbol in the run in which 100.0 to
\* 98.0 is reported for the other
C6_Witness ==
    /\ run.by # "none"
    /\ run.changes = << [symbol |-> "SPY", old_price |-> 1000, new_price |-> 1020],
                        [symbol |-> "QQQ", old_price |-> 1000, new_price |-> 980] >>

\* C7: after the detector observed a price for a symbol, last_prices holds
\* that price for the symbol, whether or not a change record was returned.
C7_ObservationBecomesBaseline ==
    \A s \in Symbols :
        (run.by # "none" /\ Answered(run.fetched[s]))
        => get_last_price(state, s) = run.fetched[s].close

\* 100.0 to 101.5 returned no record and 101.5 is the new last price
C7_Witness ==
    /\ run.by # "none"
    /\ run.prev["SPY"] = 1000
    /\ run.fetched["SPY"].close = 1015
    /\ ChangesOf("SPY") = {}
    /\ state.last_prices["SPY"] = 1015

\* the prices agree: a symbol has a last price iff it has a history entry, and
\* the last price is the entry of the most recent date
PricesAgree(st) ==
    \A s \in Symbols :
        LET h == get_price_history(st, s)
        IN  /\ (s \in DOMAIN st.last_prices) <=> (DOMAIN h # {})
            /\ (DOMAIN h # {}) =>
                 ( /\ s \in DOMAIN st.last_prices
                   /\ st.last_prices[s] = h[Max(DOMAIN h)] )

\* C8: from any document load_state returns and after any calls of
\* update_price, last_prices and price_history agree, in memory and in the
\* document the file loads as.
C8_PricesAgree == PricesAgree(state) /\ PricesAgree(load_state(disk))

\* C9: in a run in which the provider fails or returns nothing for symbol S,
\* the last price and the history of S stay as they were, and every other
\* symbol the provider answered for is compared with its own last price,
\* recorded and reported exactly by its own rule.
C9_FailureDoesNotAbortBatch ==
    [][ (run' # run /\ run'.by # "none")
        => \A S \in Symbols :
             ~Answered(run'.fetched[S])
             => ( /\ get_last_price(state', S) = get_last_price(state, S)
                  /\ get_price_history(state', S) = get_price_history(state, S)
                  /\ \A i \in DOMAIN run'.changes : run'.changes[i].symbol # S
                  /\ \A T \in Symbols \ {S} :
                       Answered(run'.fetched[T])
                       => LET p == get_last_price(state, T)
                              c == run'.fetched[T].close
                          IN  /\ get_last_price(state', T) = c
                              /\ get_price_history(state', T)
                                   = Put(get_price_history(state, T), DateOf(clock), c)
                              /\ (\E i \in DOMAIN run'.changes :
                                    run'.changes[i] = [symbol |-> T, old_price |-> p, new_price |-> c])
                                 <=> (p # None /\ 50 * Abs(c - p) >= p) )
      ]_vars

\* the provider raised for the first symbol, and the second was still
\* compared, reported and recorded
C9_Witness ==
    /\ run.by = "monitor"
    /\ run.fetched["SPY"].raised
    /\ run.prev["SPY"] = 1000
    /\ state.last_prices["SPY"] = 1000
    /\ run.changes = << [symbol |-> "QQQ", old_price |-> 980, new_price |-> 1000] >>
    /\ state.last_prices["QQQ"] = 1000

\* C10: an error in a tick never ends the loop: the loop is then in its
\* back-off, resumes at the top 300 s later and not before, and always does
\* resume.
C10_LoopSurvivesErrors ==
    /\ [](pc \in LoopStates)
    /\ [][ (pc = "backoff" /\ pc' # "backoff")
           => (pc' = "idle" /\ clock' >= clock + BACKOFF_SLEEP - Drift) ]_vars
    /\ (pc = "backoff") ~> (pc = "idle")

\* the tick of 09:00 raised before anything was sent, and the loop is at the
\* top again at least 300 s later
C10_Witness ==
    /\ pc = "idle"
    /\ IsReportTime(current_time)
    /\ reports[DateOf(current_time)] = <<>>
    /\ should_send_notification(state, current_time)
    /\ clock >= current_time + BACKOFF_SLEEP - Drift

\* C11: a send_to_all_users call attempts each identifier of list_active
\* once: it starts with all of them to do, each send takes one of them off,
\* whether it succeeded or failed, and when the call has returned none is
\* left and sent_count + failed_count is the number of recipients.
C11_EveryRecipientOnce ==
    /\ [] ( batch.kind # "none" =>
              /\ batch.remaining \subseteq batch.active_users
              /\ batch.sent_count + batch.failed_count
                   = Cardinality(batch.active_users \ batch.remaining)
              /\ pc \notin {"daily", "alert"} =>
                   ( /\ batch.remaining = {}
                     /\ batch.sent_count + batch.failed_count
                          = Cardinality(batch.active_users) ) )
    /\ [][ /\ (batch.kind = "none" /\ batch'.kind # "none") =>
                ( /\ batch'.active_users = get_active_users(state)
                  /\ batch'.remaining = batch'.active_users
                  /\ batch'.sent_count = 0 /\ batch'.failed_count = 0 )
           /\ (batch.kind # "none" /\ batch'.kind # "none" /\ batch' # batch) =>
                ( /\ \E c \in batch.remaining : batch'.remaining = batch.remaining \ {c}
                  /\ batch'.active_users = batch.active_users
                  /\ batch'.sent_count + batch'.failed_count
                       = batch.sent_count + batch.failed_count + 1 )
         ]_vars

\* an alert whose two sends both failed: the first failure did not stop the
\* second attempt
C11_Witness ==
    /\ pc = "sleep"
    /\ batch.kind = "alert"
    /\ batch.active_users = {"a1", "u1"}
    /\ batch.remaining = {}
    /\ batch.failed_count = 2

\* the registry holds a record for c
HasRecord(st, c) == "users" \in st.keys /\ c \in DOMAIN st.users

\* C12: a second add_user(id, name) for an identifier whose record is active
\* under the same name leaves the record for id, its added_date included, as
\* the first call made it.
C12_SubscribeIdempotent ==
    [][ \A c \in ChatIds :
          ( /\ RegAddUser(c)
            /\ HasRecord(state, c)
            /\ state.users[c].active
            /\ state.users[c].username = Username(c) )
          => state'.users[c] = state.users[c]
      ]_vars

\* C13: add_user for an identifier that was unsubscribed sets active and
\* keeps the date of the first subscription, and remove_user changes nothing
\* of the record but active, which it sets to false.
C13_ResubscribeKeepsDate ==
    [][ \A c \in ChatIds :
          /\ ( RegAddUser(c) /\ HasRecord(state, c) /\ ~state.users[c].active )
             => ( /\ state'.users[c].active
                  /\ state'.users[c].username = state.users[c].username
                  /\ DateOf(state'.users[c].added_date) = DateOf(state.users[c].added_date) )
          /\ ( RegRemoveUser(c) /\ HasRecord(state, c) )
             => state'.users[c] = [state.users[c] EXCEPT !.active = FALSE]
      ]_vars

\* C14: the recipients are exactly the administrators of CHAT_IDS together
\* with the identifiers whose record is active, and this is what
\* get_active_users returned when it was last called.
C14_RecipientsAreAdminsAndActive ==
    /\ \A c \in ChatIds :
         c \in get_active_users(state)
           <=> (c \in Range(CHAT_IDS) \/ (HasRecord(state, c) /\ state.users[c].active))
    /\ get_active_users(state) \subseteq ChatIds
    /\ last_call.op = "get_active_users" => last_call.recipients = get_active_users(state)

\* the administrator and the subscriber have both unsubscribed, and
\* get_active_users returned the administrator alone
C14_Witness ==
    /\ last_call.op = "get_active_users"
    /\ HasRecord(state, "a1") /\ ~state.users["a1"].active
    /\ HasRecord(state, "u1") /\ ~state.users["u1"].active
    /\ last_call.recipients = {"a1"}

\* C15: a users, test or test9am command from a chat that is not in CHAT_IDS
\* is answered with "Admin access required" and nothing else: nothing is
\* sent to any recipient, no subscriber is shown, and the state, the file
\* and the running batch stay as they were.
C15_AdminOnly ==
    [][ \A c \in ChatIds \ Range(CHAT_IDS) :
          (UsersCommand(c) \/ TestAlertCommand(c) \/ Test9amCommand(c))
          => ( /\ last_call'.text = "admin_required"
               /\ last_call'.recipients = {}
               /\ last_call'.shown = {}
               /\ state' = state
               /\ disk' = disk
               /\ batch' = batch )
      ]_vars

\* the subscriber u1, who is a recipient and no admin, asked for the test of
\* the daily report while a report was being sent, and was turned away
C15_Witness ==
    /\ last_call = AdminRequired("test9am", "u1")
    /\ "u1" \in get_active_users(state)
    /\ pc = "daily"

\* the file holds a JSON document of the shape of the persisted state
WellShaped(file) ==
    file.kind = "json" /\ {"last_prices", "last_notification"} \subseteq file.doc.keys

\* C20: started on a file that is missing, corrupt or not of the shape of the
\* persisted state, the StateManager holds the default state, and no call of
\* get_last_price, update_price or should_send_notification raises.
C20_DefaultsAndNoRaise ==
    /\ (last_call = NoCall /\ ~WellShaped(disk)) => state = DefaultState
    /\ ~last_call.raised

\* the four fields of a period are all there, or all None
AllPresent(f) ==
    f.low # None /\ ~f.is_low.none /\ f.low_date # NoDate /\ f.days_since_low # None
AllAbsent(f) ==
    f.low = None /\ f.is_low.none /\ f.low_date = NoDate /\ f.days_since_low = None

\* the bars of full_hist that are not older than P days at the time of the call
Window(P) == { i \in DOMAIN full_hist : Timestamp(full_hist[i]) >= clock - P * SecondsPerDay }
\* the least Low of those bars, and the day of the earliest bar that has it
WindowLow(P) ==
    CHOOSE x \in { full_hist[i].low : i \in Window(P) } :
        \A i \in Window(P) : x <= full_hist[i].low
WindowLowDay(P) ==
    LET days == { full_hist[i].day : i \in { j \in Window(P) : full_hist[j].low = WindowLow(P) } }
    IN  CHOOSE d \in days : \A e \in days : d <= e

\* C16: in every record fetch_low_analysis returns, each period has its four
\* fields all present or all None, also when the period's computation raised
\* after some of them were assigned.
C16_FieldsAllOrNone ==
    result.kind = "record" =>
        \A P \in Periods : AllPresent(result.periods[P]) \/ AllAbsent(result.periods[P])

\* the 30-day period raised after two of its assignments and is absent, and
\* the 60-day period is present
C16_Witness ==
    /\ result.kind = "record"
    /\ result.faults.at[30] = 3
    /\ AllAbsent(result.periods[30])
    /\ AllPresent(result.periods[60])

\* C17 as stated: a period is absent if and only if fewer than
\* max(10, round(0.5 * P)) bars are in its window, and otherwise low_P is the
\* least Low of the window and low_date_P the day of the earliest bar that
\* has it.
C17_AbsentIffTooFewBars ==
    result.kind = "record" =>
        \A P \in Periods :
          LET f == result.periods[P]
          IN  /\ AllAbsent(f) <=> Cardinality(Window(P)) < Max2(10, RoundHalfEven(P, 2))
              /\ ~AllAbsent(f) =>
                   ( /\ 8 * f.low = 100 * WindowLow(P)
                     /\ f.low_date = WindowLowDay(P) )

\* C17, amended: a period is absent if and only if fewer than
\* max(10, round(0.5 * P)) bars are in its window or its computation raised,
\* and otherwise low_P is the least Low of the window rounded to 2 decimals
\* and low_date_P the day of the earliest bar that has it.
C17_AbsentIffTooFewBarsOrError ==
    result.kind = "record" =>
        \A P \in Periods :
          LET f == result.periods[P]
          IN  /\ AllAbsent(f) <=> ( \/ Cardinality(Window(P)) < Max2(10, RoundHalfEven(P, 2))
                                    \/ result.faults.at[P] # 0 )
              /\ ~AllAbsent(f) =>
                   ( /\ f.low = RoundHalfEven(100 * WindowLow(P), 8)
                     /\ f.low_date = WindowLowDay(P) )

\* nothing raised; the 30-day period has the low 100.125 of its first and
\* its last bar, stored as 100.12 with the day of the first, and the 60-day
\* period has too few bars
C17_Witness ==
    /\ result.kind = "record"
    /\ \A P \in Periods : result.faults.at[P] = 0
    /\ Len(full_hist) = 15
    /\ full_hist[1].low = 801 /\ full_hist[15].low = 801
    /\ result.periods[30].low = 10012
    /\ result.periods[30].low_date = full_hist[1].day
    /\ AllAbsent(result.periods[60])

\* C18: for every present period, is_low_P is true if and only if the
\* current price is at most 1.015 times the least Low of the window, equality
\* included, both taken unrounded.
C18_AtLowIffWithinTolerance ==
    result.kind = "record" =>
        \A P \in Periods :
          AllPresent(result.periods[P]) =>
            ( result.periods[P].is_low.value
                <=> 1000 * full_hist[Len(full_hist)].close <= 1015 * WindowLow(P) )

\* C19 as stated: with two bars or more change_1d is the change of the last
\* close against the close before it, in percent rounded to 1 decimal place,
\* and with one bar it is 0.
C19_ChangeRoundedToOneDecimal ==
    result.kind = "record" =>
        LET n == Len(full_hist)
        IN  /\ n >= 2 =>
                 result.change_1d
                   = 10 * RoundHalfEven((full_hist[n].close - full_hist[n - 1].close) * 1000,
                                        full_hist[n - 1].close)
            /\ n = 1 => result.change_1d = 0

\* C19, amended: with two bars or more change_1d is the change of the last
\* close against the close before it, in percent rounded to 2 decimal
\* places, and with one bar it is 0.
C19_ChangeRoundedToTwoDecimals ==
    result.kind = "record" =>
        LET n == Len(full_hist)
        IN  /\ n >= 2 =>
                 result.change_1d
                   = RoundHalfEven((full_hist[n].close - full_hist[n - 1].close) * 10000,
                                   full_hist[n - 1].close)
            /\ n = 1 => result.change_1d = 0

\* 101.0 to 103.0 is recorded as 1.98 percent
C19_Witness ==
    /\ result.kind = "record"
    /\ Len(full_hist) >= 2
    /\ full_hist[Len(full_hist) - 1].close = 808
    /\ full_hist[Len(full_hist)].close = 824
    /\ result.change_1d = 198

----------------------------------------------------------------------------
\* C21: when update_price reaches its write, it does not raise, the
\* in-memory state holds the new price, a write that succeeds leaves the
\* file holding the complete current state, and whatever the write does the
\* file afterwards loads as what it loaded as before or as the current state
C21_FailedWriteKeepsDocument ==
    [][ (StoreUpdatePrice /\ ~last_call'.raised) =>
          /\ get_last_price(state', last_call'.arg) # None
          /\ (disk'.kind = "json" => disk'.doc = state')
          /\ load_state(disk') \in {load_state(disk), state'} ]_vars

----------------------------------------------------------------------------
\* a returned frame has more than 50 rows and the Low column
EnoughRows(answer) ==
    ~answer.raised /\ Len(answer.frame) > 50 /\ \A i \in DOMAIN answer.frame : answer.frame[i].low # None

\* C22: the lookbacks are requested in the order 2y, 1y, 6mo, 3mo; a request
\* whose answer has more than 50 rows and a Low column is the last one made,
\* the loop stops early for no other reason, and the frame analysed is the
\* frame of that answer
C22_StopsAtFirstSufficient ==
    result # NoResult =>
        /\ Len(requests) <= Len(LOOKBACKS)
        /\ \A i \in DOMAIN requests : requests[i].period = <<"2y", "1y", "6mo", "3mo">>[i]
        /\ \A i \in DOMAIN requests :
             EnoughRows(requests[i].answer) =>
                /\ i = Len(requests)
                /\ full_hist = requests[i].answer.frame
                /\ result # Unavailable => result.current = Round2(requests[i].answer.frame[Len(requests[i].answer.frame)].close)
        /\ (\A i \in DOMAIN requests : ~EnoughRows(requests[i].answer)) => Len(requests) = Len(LOOKBACKS)

\* the second lookback gave the first sufficient answer, after an
\* insufficient one, and its frame was analysed
C22_Witness ==
    /\ Len(requests) = 2
    /\ ~requests[1].answer.raised /\ Len(requests[1].answer.frame) = 50
    /\ EnoughRows(requests[2].answer)
    /\ result # NoResult /\ result # Unavailable
    /\ result.current = Round2(814)

\* C25: when a lookback returned a frame that is not empty, the result is
\* not unavailable
C25_UnavailableOnlyWithoutData ==
    (result # NoResult /\ \E i \in DOMAIN requests :
                             ~requests[i].answer.raised /\ requests[i].answer.frame # <<>>)
        => result # Unavailable

----------------------------------------------------------------------------
\* C30: in an analysis record, for two tracked periods P1 < P2 that are both
\* present, the low of P2 is at most the low of P1, and being at the low of
\* P2 implies being at the low of P1
C30_LongerWindowLowerLow ==
    (result # NoResult /\ result # Unavailable) =>
        \A P1 \in Periods, P2 \in Periods :
            (P1 < P2 /\ AllPresent(result.periods[P1]) /\ AllPresent(result.periods[P2])) =>
                /\ result.periods[P2].low <= result.periods[P1].low
                /\ result.periods[P2].is_low.value => result.periods[P1].is_low.value

\* a record whose 60-day low is below its 30-day low, the price being at both
C30_Witness ==
    /\ result # NoResult /\ result # Unavailable
    /\ AllPresent(result.periods[30]) /\ AllPresent(result.periods[60])
    /\ result.periods[60].low < result.periods[30].low
    /\ result.periods[60].is_low.value
    /\ result.periods[30].is_low.value

----------------------------------------------------------------------------
\* a step in which detect_significant_changes ran: it left the record of its
\* run
DetectorStep == run' # run /\ run'.by \in {"monitor", "alerts"}

C24_DetectorOnlyOnAlignedTicks ==
    [][ pc = "idle" =>
          /\ (run' # run \/ pc' = "alert") =>
                /\ Hour(clock) >= 9 /\ Hour(clock) <= 16
                /\ Minute(clock) % 30 = 0
          /\ pc' = "alert" =>
                /\ run'.by = "monitor"
                /\ run'.changes # <<>>
                /\ batch'.kind = "alert" ]_vars

\* an alert is being sent after the check of 16:30, and a tick at 9:01 ran
\* no detector
C24_Witness ==
    /\ pc = "alert"
    /\ batch.kind = "alert"
    /\ run.by = "monitor"
    /\ Hour(current_time) = 16 /\ Minute(current_time) = 30

\* C27: in a run of the detector by either caller, the previous price of
\* every change record is the price the state held, which the latest
\* observation of the symbol stored: a run stores the price of every symbol
\* the provider answered for and leaves the others, no other step changes a
\* stored price, and the change just reported is not reported again to a
\* caller that observes the same price
C27_OneSharedBaseline ==
    [][ /\ DetectorStep =>
              /\ \A i \in DOMAIN run'.changes :
                    /\ run'.changes[i].symbol \in DOMAIN state.last_prices
                    /\ run'.changes[i].old_price = state.last_prices[run'.changes[i].symbol]
              /\ \A s \in Symbols :
                    IF Answered(run'.fetched[s])
                    THEN /\ s \in DOMAIN state'.last_prices
                         /\ state'.last_prices[s] = run'.fetched[s].close
                         /\ ~Emits(state'.last_prices[s], run'.fetched[s].close)
                    ELSE \/ s \notin DOMAIN state.last_prices /\ s \notin DOMAIN state'.last_prices
                         \/ /\ s \in DOMAIN state.last_prices /\ s \in DOMAIN state'.last_prices
                            /\ state'.last_prices[s] = state.last_prices[s]
        /\ ~DetectorStep => state'.last_prices = state.last_prices ]_vars

\* the alerts command reported a change of QQQ against the price the loop's
\* check had stored
C27_Witness ==
    /\ run.by = "alerts"
    /\ \E i \in DOMAIN run.changes :
          run.changes[i] = [symbol |-> "QQQ", old_price |-> 980, new_price |-> 1000]
    /\ state.last_prices["QQQ"] = 1000

\* a step of report, detailed, test or test9am
ReadOnlyCommand ==
    \/ ReportCommand
    \/ DetailedCommand
    \/ \E chat_id \in ChatIds : TestAlertCommand(chat_id) \/ Test9amCommand(chat_id)

\* C28: report, detailed, test and test9am leave the date of the last
\* report, the last prices, the price history, the registry and the file as
\* they were, so whether the loop would send the daily report is unchanged
C28_CommandsLeaveState ==
    [][ ReadOnlyCommand =>
          /\ state'.last_notification = state.last_notification
          /\ state'.last_prices = state.last_prices
          /\ state'.price_history = state.price_history
          /\ state'.users = state.users
          /\ disk' = disk
          /\ should_send_notification(state', clock') = should_send_notification(state, clock) ]_vars

\* the test of the 9:00 report ran for the administrator while the loop was
\* sending the daily report, and the day is not marked yet
C28_Witness ==
    /\ last_call.op = "test9am" /\ last_call.text = "test_results"
    /\ pc = "daily"
    /\ should_send_notification(state, clock)

\* C29: when a tick at the report time raises before the day is marked, the
\* date of the last report and the file stay as they were, the loop goes to
\* the back-off, and the back-off lasts 300 seconds
C29_ErrorLeavesDayUnmarked ==
    [][ /\ TickDailyRaise =>
              /\ state'.last_notification = state.last_notification
              /\ should_send_notification(state', clock')
              /\ disk' = disk
              /\ pc' = "backoff"
        /\ (pc = "backoff" /\ pc' # "backoff") =>
              /\ pc' = "idle"
              /\ clock' >= clock + 300 - Drift \/ clock' = EndOfTime ]_vars

\* the tick of 9:00 raised, the day is unmarked and the loop is backing off
C29_Witness ==
    /\ pc = "backoff"
    /\ IsReportTime(current_time)
    /\ should_send_notification(state, current_time)
    /\ reports[DateOf(current_time)] = <<>>

----------------------------------------------------------------------------
\* C26: whenever the loop of schedule_daily_reports reads the time, it
\* computes next_run, the next 09:00:00 strictly after that time (today
\* before 09:00, else tomorrow, on every day of the month) and sleeps until
\* it; every report is sent at such a boundary and no boundary gets two
C26_SleepsUntilNextNine ==
    [][ /\ (pc = "schedule" /\ clock < ScheduleEnd) =>
              /\ pc' = "until_next_run"
              /\ next_run' % SecondsPerDay = HMS(9, 0, 0)
              /\ next_run' > clock
              /\ next_run' - clock <= SecondsPerDay
        /\ pc = "until_next_run" =>
              /\ clock' >= next_run
              /\ \A t \in daily_sent : DateOf(t) # DateOf(clock') ]_vars

====
